---- MODULE Spec2Model ----
(***************************************************************************)
(* Model of the traffic-camera acquisition pipeline of                     *)
(* src/services/trafficService.ts: TrafficService.fetchLiveCameras with    *)
(* fetchWithTimeout, parseArcGisJson and parseTrafficXml, the relay pool   *)
(* PROXIES and the module-level array FALLBACK_CAMERAS.                    *)
(*                                                                         *)
(* Each await of the async code is one step of the model: the step that    *)
(* settles an awaited promise runs the continuation up to the next await,  *)
(* exactly as the JavaScript event loop does.  The upstream servers, the   *)
(* timers and the caller are the environment.                              *)
(*                                                                         *)
(* Degrees are kept in thousandths (-36.8 is -36800).                      *)
(***************************************************************************)
EXTENDS Integers, Sequences, FiniteSets, TLC

\* ------------------------------------------------------------------ bounds
\* Longest feature array of an authoritative payload.
MaxFeatures == 2
\* Most elements of a legacy markup document.
MaxNodes == 2
\* Math.random() is drawn from the multiples of 1/RandomSteps in [0, 1).
RandomSteps == 20
\* Most cache.put calls of the service worker still pending when a fetch event arrives.
MaxPendingPuts == 2

\* ------------------------------------------------------- JavaScript values
Num(n) == [t |-> "number", v |-> n]
NaN == [t |-> "NaN", v |-> 0]
Undefined == [t |-> "undefined", v |-> 0]
\* A non-numeric value such as the string "174.7" in place of a number.
JsString == [t |-> "string", v |-> 0]

\* JavaScript truthiness of a coordinate value, as in `if (lat && lng)`.
Truthy(x) ==
    CASE x.t = "number" -> x.v # 0
      [] x.t = "string" -> TRUE
      [] OTHER -> FALSE

\* typeof x === 'number' and not NaN.
IsNumeric(x) == x.t = "number"

\* ----------------------------------------------------------- configuration
BASE_TRAFFIC_URL == "https://trafficnz.info"
ARCGIS_ENDPOINT == "https://services.arcgis.com/XTtANUDT8Va4DLwI/ArcGIS/rest/services/LiveCamerasNZTA_Public_View/FeatureServer/0/query?where=1%3D1&outFields=*&f=geojson"
XML_ENDPOINT == "https://trafficnz.info/service/traffic/rest/4/cameras/all"

\* The literal the module-level array FALLBACK_CAMERAS is initialised with.
FallbackLiteral ==
    << [id |-> "FB-AKL-01", latitude |-> Num(-36723), longitude |-> Num(174706),
        status |-> "Operational", source |-> "Static Matrix Fallback",
        severity |-> "low", trend |-> "stable", confidence |-> 99],
       [id |-> "FB-AKL-02", latitude |-> Num(-36830), longitude |-> Num(174750),
        status |-> "Operational", source |-> "Static Matrix Fallback",
        severity |-> "low", trend |-> "stable", confidence |-> 99],
       [id |-> "FB-WLG-01", latitude |-> Num(-41285), longitude |-> Num(174773),
        status |-> "Operational", source |-> "Static Matrix Fallback",
        severity |-> "low", trend |-> "stable", confidence |-> 99] >>

\* The relay pool, in declared order; viaCorsproxy is url.includes('corsproxy.io').
PROXIES ==
    << [url |-> "https://api.allorigins.win/get?url=", type |-> "json", viaCorsproxy |-> FALSE],
       [url |-> "https://corsproxy.io/?", type |-> "text", viaCorsproxy |-> TRUE],
       [url |-> "https://api.codetabs.com/v1/proxy?url=", type |-> "text", viaCorsproxy |-> FALSE],
       [url |-> "https://thingproxy.freeboard.io/fetch/", type |-> "text", viaCorsproxy |-> FALSE] >>

\* The request target of a relay: the raw endpoint appended for corsproxy.io,
\* the percent-encoded endpoint for every other relay.
TargetUrl(proxy) ==
    [base |-> proxy.url, endpoint |-> XML_ENDPOINT, encoded |-> ~proxy.viaCorsproxy]

\* ------------------------------------------------------------------- text
\* A string is the sequence of its characters.
Whitespace == {" ", "\n", "\t"}

RECURSIVE TrimStart(_)
TrimStart(s) ==
    IF s # <<>> /\ Head(s) \in Whitespace THEN TrimStart(Tail(s)) ELSE s

RECURSIVE TrimEnd(_)
TrimEnd(s) ==
    IF s # <<>> /\ s[Len(s)] \in Whitespace THEN TrimEnd(SubSeq(s, 1, Len(s) - 1)) ELSE s

\* String.prototype.trim
Trim(s) == TrimEnd(TrimStart(s))

\* String.prototype.startsWith
StartsWith(s, prefix) ==
    Len(s) >= Len(prefix) /\ SubSeq(s, 1, Len(prefix)) = prefix

DoctypeHtml == <<"<", "!", "D", "O", "C", "T", "Y", "P", "E", " ", "h", "t", "m", "l">>
HtmlTag == <<"<", "h", "t", "m", "l">>

\* parseFloat on the coordinate texts the model's documents carry.
ParseFloat(s) ==
    CASE s = "-36.8" -> Num(-36800)
      [] s = "174.7" -> Num(174700)
      [] s = "-41.2" -> Num(-41200)
      [] s = "175.1" -> Num(175100)
      [] s = "0" -> Num(0)
      [] s = "0.0" -> Num(0)
      [] s = "12.5km" -> Num(12500)
      [] OTHER -> NaN

\* a || b on strings: the first non-empty one.
OrElse(a, b) == IF a # "" THEN a ELSE b

\* The characters of the string literals of the code and of the texts the
\* model's payloads carry.
Chars(s) ==
    CASE s = "" -> <<>>
      [] s = "router.project-osrm.org" ->
           <<"r", "o", "u", "t", "e", "r", ".", "p", "r", "o", "j", "e", "c", "t", "-", "o", "s", "r", "m", ".", "o", "r", "g">>
      [] s = "https://router.project-osrm.org" ->
           <<"h", "t", "t", "p", "s", ":", "/", "/", "r", "o", "u", "t", "e", "r", ".", "p", "r", "o", "j", "e", "c", "t", "-", "o", "s", "r", "m", ".", "o", "r", "g">>
      [] s = "https://smart-cameras.example" ->
           <<"h", "t", "t", "p", "s", ":", "/", "/", "s", "m", "a", "r", "t", "-", "c", "a", "m", "e", "r", "a", "s", ".", "e", "x", "a", "m", "p", "l", "e">>
      [] s = "http" ->
           <<"h", "t", "t", "p">>
      [] s = "http://" ->
           <<"h", "t", "t", "p", ":", "/", "/">>
      [] s = "https://" ->
           <<"h", "t", "t", "p", "s", ":", "/", "/">>
      [] s = "trafficnz.info" ->
           <<"t", "r", "a", "f", "f", "i", "c", "n", "z", ".", "i", "n", "f", "o">>
      [] s = "/" ->
           <<"/">>
      [] s = "https://trafficnz.info" ->
           <<"h", "t", "t", "p", "s", ":", "/", "/", "t", "r", "a", "f", "f", "i", "c", "n", "z", ".", "i", "n", "f", "o">>
      [] s = "/camera/images/" ->
           <<"/", "c", "a", "m", "e", "r", "a", "/", "i", "m", "a", "g", "e", "s", "/">>
      [] s = "http://www.trafficnz.info" ->
           <<"h", "t", "t", "p", ":", "/", "/", "w", "w", "w", ".", "t", "r", "a", "f", "f", "i", "c", "n", "z", ".", "i", "n", "f", "o">>
      [] s = "https://www.trafficnz.info" ->
           <<"h", "t", "t", "p", "s", ":", "/", "/", "w", "w", "w", ".", "t", "r", "a", "f", "f", "i", "c", "n", "z", ".", "i", "n", "f", "o">>
      [] s = "http://trafficnz.info" ->
           <<"h", "t", "t", "p", ":", "/", "/", "t", "r", "a", "f", "f", "i", "c", "n", "z", ".", "i", "n", "f", "o">>
      [] s = ".jpg" ->
           <<".", "j", "p", "g">>
      [] s = "a.com" ->
           <<"a", ".", "c", "o", "m">>
      [] s = "www.trafficnz.info" ->
           <<"w", "w", "w", ".", "t", "r", "a", "f", "f", "i", "c", "n", "z", ".", "i", "n", "f", "o">>
      [] s = "img.trafficnz.info" ->
           <<"i", "m", "g", ".", "t", "r", "a", "f", "f", "i", "c", "n", "z", ".", "i", "n", "f", "o">>
      [] s = "/x.jpg" ->
           <<"/", "x", ".", "j", "p", "g">>
      [] s = "20.jpg" ->
           <<"2", "0", ".", "j", "p", "g">>
      [] s = "/?u=http://b.com" ->
           <<"/", "?", "u", "=", "h", "t", "t", "p", ":", "/", "/", "b", ".", "c", "o", "m">>
      [] s = "/?u=http://trafficnz.info" ->
           <<"/", "?", "u", "=", "h", "t", "t", "p", ":", "/", "/", "t", "r", "a", "f", "f", "i", "c", "n", "z", ".", "i", "n", "f", "o">>
      [] s = "/trafficnz.info/1.jpg" ->
           <<"/", "t", "r", "a", "f", "f", "i", "c", "n", "z", ".", "i", "n", "f", "o", "/", "1", ".", "j", "p", "g">>
      [] s = "Construction" ->
           <<"C", "o", "n", "s", "t", "r", "u", "c", "t", "i", "o", "n">>
      [] s = "Operational" ->
           <<"O", "p", "e", "r", "a", "t", "i", "o", "n", "a", "l">>
      [] s = "Offline" ->
           <<"O", "f", "f", "l", "i", "n", "e">>
      [] s = "Road Construction ahead" ->
           <<"R", "o", "a", "d", " ", "C", "o", "n", "s", "t", "r", "u", "c", "t", "i", "o", "n", " ", "a", "h", "e", "a", "d">>
      [] s = "construction" ->
           <<"c", "o", "n", "s", "t", "r", "u", "c", "t", "i", "o", "n">>

\* String.prototype.includes
Includes(s, part) ==
    \E n \in 1..(Len(s) - Len(part) + 1) : SubSeq(s, n, n + Len(part) - 1) = part

\* String.prototype.replace with a string pattern: the first occurrence only.
ReplaceFirst(s, pattern, replacement) ==
    LET hits == {n \in 1..(Len(s) - Len(pattern) + 1) : SubSeq(s, n, n + Len(pattern) - 1) = pattern}
    IN  IF hits = {}
        THEN s
        ELSE LET n == CHOOSE h \in hits : \A g \in hits : h <= g
             IN  SubSeq(s, 1, n - 1) \o replacement \o SubSeq(s, n + Len(pattern), Len(s))

Digits == {"0", "1", "2", "3", "4", "5", "6", "7", "8", "9"}

\* /^\d+\.jpg$/.test(url)
IsDigitsJpg(url) ==
    /\ Len(url) > Len(Chars(".jpg"))
    /\ SubSeq(url, Len(url) - Len(Chars(".jpg")) + 1, Len(url)) = Chars(".jpg")
    /\ \A n \in 1..(Len(url) - Len(Chars(".jpg"))) : url[n] \in Digits

\* ------------------------------------------------------- normalizeImageUrl
\* Lines 261-279; the empty sequence stands for an absent (undefined or "")
\* image reference.
normalizeImageUrl(url) ==
    IF url = <<>>
    THEN <<>>
    ELSE LET absoluteUrl ==
                 IF StartsWith(url, Chars("http")) /\ ~Includes(url, Chars("trafficnz.info"))
                 THEN ReplaceFirst(url, Chars("http://"), Chars("https://"))
                 ELSE IF StartsWith(url, Chars("/"))
                 THEN Chars(BASE_TRAFFIC_URL) \o url
                 ELSE IF IsDigitsJpg(url)
                 THEN Chars(BASE_TRAFFIC_URL) \o Chars("/camera/images/") \o url
                 ELSE IF ~StartsWith(url, Chars("http"))
                 THEN Chars(BASE_TRAFFIC_URL) \o Chars("/camera/images/") \o url
                 ELSE url
         IN  ReplaceFirst(
                 ReplaceFirst(absoluteUrl, Chars("http://www.trafficnz.info"),
                              Chars("https://www.trafficnz.info")),
                 Chars("http://trafficnz.info"), Chars("https://www.trafficnz.info"))

\* The image references an upstream entry may carry: none, a root-relative
\* path, a bare file name, another relative path, and http or https URLs on
\* several hosts, some with a second URL in their query.
ImageRefs ==
    {Chars(scheme) \o Chars(host) \o Chars(path) :
        scheme \in {"", "http://", "https://"},
        host \in {"", "a.com", "www.trafficnz.info", "trafficnz.info", "img.trafficnz.info"},
        path \in {"", "/x.jpg", "20.jpg", "/?u=http://b.com", "/?u=http://trafficnz.info",
                  "/trafficnz.info/1.jpg"}}

\* ------------------------------------------------- authoritative payloads
\* The value of an attribute that need not be a string: absent, a string, or
\* a boolean.
AttrAbsent == [t |-> "undefined", text |-> ""]
AttrText(s) == [t |-> "string", text |-> s]
AttrBool(b) == [t |-> "boolean", text |-> IF b THEN "true" ELSE "false"]

\* A GeoJSON feature as the code reads it: feature.properties (id, ObjectId,
\* offline) and feature.geometry.coordinates; "" stands for an absent id.
Feature(hasProps, id, objectId, offline, hasGeom, hasCoords, coords) ==
    [properties |-> [present |-> hasProps, id |-> id, ObjectId |-> objectId, offline |-> offline],
     geometry |-> [present |-> hasGeom, hasCoordinates |-> hasCoords, coordinates |-> coords]]

FeatGoodA == Feature(TRUE, "7", "", AttrAbsent, TRUE, TRUE, <<Num(174700), Num(-36800)>>)
FeatGoodB == Feature(TRUE, "", "12", AttrText("true"), TRUE, TRUE, <<Num(175100), Num(-41200)>>)
FeatZero == Feature(TRUE, "9", "", AttrAbsent, TRUE, TRUE, <<Num(0), Num(0)>>)
FeatShort == Feature(TRUE, "10", "", AttrAbsent, TRUE, TRUE, <<>>)
FeatText == Feature(TRUE, "11", "", AttrAbsent, TRUE, TRUE, <<JsString, JsString>>)
FeatNoGeometry == Feature(TRUE, "13", "", AttrAbsent, FALSE, FALSE, <<>>)
FeatNoProperties == Feature(FALSE, "", "", AttrAbsent, TRUE, TRUE, <<Num(174700), Num(-36800)>>)
FeatNoIds == Feature(TRUE, "", "", AttrAbsent, TRUE, TRUE, <<Num(174700), Num(-36800)>>)

Features ==
    {FeatGoodA, FeatGoodB, FeatZero, FeatShort, FeatText, FeatNoGeometry, FeatNoProperties, FeatNoIds}

SeqsUpTo(S, n) == UNION {[1..m -> S] : m \in 0..n}

\* What the authoritative endpoint may deliver as the body of an OK response:
\* a body whose delivery fails, text that is not JSON, the JSON value null, an
\* object without (or with a falsy) features member, an object whose features
\* member is not an array, or a feature collection.
AuthBody(kind, features) == [kind |-> kind, features |-> features]

AuthBodies ==
    {AuthBody(k, <<>>) : k \in {"bodyError", "notJson", "null", "noFeatures", "featuresNotArray"}}
        \cup {AuthBody("featureCollection", fs) : fs \in SeqsUpTo(Features, MaxFeatures)}

\* array[i] of JavaScript (0-based); undefined past the end.
JsIndex(vals, i) == IF i + 1 <= Len(vals) THEN vals[i + 1] ELSE Undefined

\* One iteration of the map callback of parseArcGisJson; it throws a TypeError
\* when properties, geometry or geometry.coordinates is undefined.
FeatureThrows(feature) ==
    \/ ~feature.properties.present
    \/ ~feature.geometry.present
    \/ ~feature.geometry.hasCoordinates

ArcGisSource_Legacy == "TrafficNZ REST v4"

\* Line 193: the source label of the records parseArcGisJson builds.
ArcGisSource == "NZTA ArcGIS (Authoritative)"

ArcGisStatus_AnyTrue(offline) ==
    IF offline.text \in {"true", "True"} THEN "Offline" ELSE "Operational"

\* Line 179: props.offline === 'true' ? 'Offline' : 'Operational'
ArcGisStatus(offline) == IF offline = AttrText("true") THEN "Offline" ELSE "Operational"

ArcGisRecord(feature) ==
    LET props == feature.properties
        coords == feature.geometry.coordinates
        status == ArcGisStatus(props.offline)
    IN  [id |-> "arcgis-" \o OrElse(props.id, OrElse(props.ObjectId, "undefined")),
         latitude |-> JsIndex(coords, 1),
         longitude |-> JsIndex(coords, 0),
         status |-> status,
         source |-> ArcGisSource]

Readable(feature) == ~FeatureThrows(feature)

parseArcGisJson_SkipsUnreadable(geoJson) ==
    IF geoJson.kind # "featureCollection"
    THEN [threw |-> FALSE, records |-> <<>>]
    ELSE [threw |-> FALSE,
          records |-> [n \in 1..Len(SelectSeq(geoJson.features, Readable)) |->
                          ArcGisRecord(SelectSeq(geoJson.features, Readable)[n])]]

\* parseArcGisJson: [] when the value or its features member is missing, a
\* TypeError when features has no map method or a feature cannot be read,
\* otherwise one record per feature, in feature order.
parseArcGisJson(geoJson) ==
    IF geoJson.kind \in {"null", "noFeatures"}
    THEN [threw |-> FALSE, records |-> <<>>]
    ELSE IF geoJson.kind = "featuresNotArray"
    THEN [threw |-> TRUE, records |-> <<>>]
    ELSE IF \E n \in 1..Len(geoJson.features) : FeatureThrows(geoJson.features[n])
    THEN [threw |-> TRUE, records |-> <<>>]
    ELSE [threw |-> FALSE,
          records |-> [n \in 1..Len(geoJson.features) |-> ArcGisRecord(geoJson.features[n])]]

\* response.json() of the authoritative response rejects when the body cannot
\* be read or is not JSON.
JsonRejects(body) == body.kind \in {"bodyError", "notJson"}

\* ------------------------------------------------------- legacy payloads
\* An element found by querySelector, or none.
El(text) == [present |-> TRUE, text |-> text]
NoEl == [present |-> FALSE, text |-> ""]

\* An element of a legacy document as parseTrafficXml reads it: its tag name,
\* the text of its id and status descendants ("" when absent), the latitude and
\* longitude elements under its location child, its own latitude and longitude
\* children, and whether the location child precedes them in document order.
Node(tag, id, status, nestedLat, nestedLng, directLat, directLng, locationFirst) ==
    [tag |-> tag, id |-> id, status |-> status,
     location |-> [latitude |-> nestedLat, longitude |-> nestedLng],
     latitude |-> directLat, longitude |-> directLng,
     locationFirst |-> locationFirst]

NodeNested == Node("trafficCamera", "101", "", El("-36.8"), El("174.7"), NoEl, NoEl, TRUE)
NodeDirect == Node("camera", "", "", NoEl, NoEl, El("-41.2"), El("175.1"), TRUE)
NodeBoth == Node("trafficCamera", "102", "Offline", El("-36.8"), El("174.7"), El("-41.2"), El("175.1"), FALSE)
NodeZero == Node("camera", "103", "", NoEl, NoEl, El("0"), El("174.7"), TRUE)
NodeNoCoords == Node("trafficCamera", "105", "", NoEl, NoEl, NoEl, NoEl, TRUE)
NodeJunk == Node("trafficCamera", "104", "", El("abc"), NoEl, NoEl, El("174.7"), TRUE)
NodeOther == Node("site", "106", "", NoEl, NoEl, El("-36.8"), El("174.7"), TRUE)

Nodes == {NodeNested, NodeDirect, NodeBoth, NodeZero, NodeJunk, NodeNoCoords, NodeOther}

\* A payload string: its characters up to the end of its first tag, and the
\* document DOMParser builds from the whole string (whether it is well-formed,
\* and its elements in document order).
XmlText(text, wellFormed, elements) ==
    [text |-> text, dom |-> [wellFormed |-> wellFormed, elements |-> elements]]

TextEmpty == XmlText(<<>>, FALSE, <<>>)
TextBlank == XmlText(<<" ", "\n">>, FALSE, <<>>)
TextDoctype == XmlText(DoctypeHtml \o <<">">>, FALSE, <<>>)
TextHtmlIndented == XmlText(<<"\n", " ">> \o HtmlTag \o <<">">>, TRUE, <<>>)
TextDoctypeLower == XmlText(<<"<", "!", "d", "o", "c", "t", "y", "p", "e", " ", "h", "t", "m", "l", ">">>, FALSE, <<>>)
TextHtmlUpper == XmlText(<<"<", "H", "T", "M", "L", ">">>, TRUE, <<>>)
TextTruncated == XmlText(<<"<", "r", "e", "s">>, FALSE, <<NodeNested>>)
TextDocument(elements) == XmlText(<<"<", "r", "e", "s", "p", "o", "n", "s", "e", ">">>, TRUE, elements)

XmlTexts ==
    {TextEmpty, TextBlank, TextDoctype, TextHtmlIndented, TextDoctypeLower, TextHtmlUpper, TextTruncated}
        \cup {TextDocument(es) : es \in SeqsUpTo(Nodes, MaxNodes)}

\* What a relay may deliver as the body of an OK response: a body whose
\* delivery fails, the text itself, or a JSON envelope (the value null, an
\* object without contents, an object whose contents is a number, or an
\* object whose contents is the text).
RelayBody(fmt, kind, xml) == [fmt |-> fmt, kind |-> kind, xml |-> xml]

RelayBodies ==
    {RelayBody("error", "", TextEmpty)}
        \cup {RelayBody("raw", "", x) : x \in XmlTexts}
        \cup {RelayBody("json", k, TextEmpty) : k \in {"null", "noContents", "contentsNumber"}}
        \cup {RelayBody("json", "contents", x) : x \in XmlTexts}

\* The source text of a JSON body, as response.text() returns it.
JsonSource(body) ==
    IF body.kind = "null"
    THEN XmlText(<<"n", "u", "l", "l">>, FALSE, <<>>)
    ELSE XmlText(<<"{", "\"">>, FALSE, <<>>)

\* Lines 138-144: the payload of an OK relay response.  json() rejects on a
\* body that is not JSON, data.contents throws on null; the value is the
\* string, undefined or a number.
ExtractXmlText(proxy, body) ==
    IF body.fmt = "error"
    THEN [threw |-> TRUE, t |-> "undefined", xml |-> TextEmpty]
    ELSE IF proxy.type = "json"
    THEN CASE body.fmt = "raw" -> [threw |-> TRUE, t |-> "undefined", xml |-> TextEmpty]
           [] body.kind = "null" -> [threw |-> TRUE, t |-> "undefined", xml |-> TextEmpty]
           [] body.kind = "noContents" -> [threw |-> FALSE, t |-> "undefined", xml |-> TextEmpty]
           [] body.kind = "contentsNumber" -> [threw |-> FALSE, t |-> "number", xml |-> TextEmpty]
           [] OTHER -> [threw |-> FALSE, t |-> "string", xml |-> body.xml]
    ELSE IF body.fmt = "raw"
    THEN [threw |-> FALSE, t |-> "string", xml |-> body.xml]
    ELSE [threw |-> FALSE, t |-> "string", xml |-> JsonSource(body)]

\* !xmlText of line 147.
Falsy(value) ==
    \/ value.t = "undefined"
    \/ value.t = "string" /\ value.xml.text = <<>>

\* Line 147, for a string: the payload is empty or starts, once trimmed, with
\* '<!DOCTYPE html' or '<html'.
IsHtmlErrorPage(text) ==
    \/ StartsWith(Trim(text), DoctypeHtml)
    \/ StartsWith(Trim(text), HtmlTag)

\* --------------------------------------------------------- parseTrafficXml
\* The outcomes of Math.random().toString(36).substr(2, 5) the model draws from.
Suffixes == {"k3x9q", "p07zc"}

\* One draw for each element without an id: `getVal("id") || ...` calls
\* Math.random only then.
Draws(elements) == [{n \in 1..Len(elements) : elements[n].id = ""} -> Suffixes]

\* node.querySelector("location > " + name)
QueryNested(node, name) == node.location[name]

\* node.querySelector(name): the first such descendant in document order.
QueryFirst(node, name) ==
    IF node.locationFirst
    THEN IF node.location[name].present THEN node.location[name] ELSE node[name]
    ELSE IF node[name].present THEN node[name] ELSE node.location[name]

\* getVal: the trimmed text of the element found, or "".
getVal(el) == IF el.present THEN el.text ELSE ""

NodeLat(node) ==
    ParseFloat(OrElse(getVal(QueryNested(node, "latitude")),
                      OrElse(getVal(QueryFirst(node, "latitude")), "0")))

NodeLng(node) ==
    ParseFloat(OrElse(getVal(QueryNested(node, "longitude")),
                      OrElse(getVal(QueryFirst(node, "longitude")), "0")))

IsCameraNode_OnlyTrafficCamera(node) == node.tag = "trafficCamera"

\* querySelectorAll("trafficCamera, camera")
IsCameraNode(node) == node.tag \in {"trafficCamera", "camera"}

\* if (lat && lng)
HasCoordinates(node) == Truthy(NodeLat(node)) /\ Truthy(NodeLng(node))

XmlRecord(node, n, rnd) ==
    [id |-> IF node.id # "" THEN node.id ELSE "node-" \o rnd[n],
     latitude |-> NodeLat(node),
     longitude |-> NodeLng(node),
     status |-> OrElse(node.status, "Operational"),
     source |-> "TrafficNZ REST v4"]

RECURSIVE ParseNodes(_, _, _)
ParseNodes(elements, n, rnd) ==
    IF n > Len(elements)
    THEN <<>>
    ELSE (IF IsCameraNode(elements[n]) /\ HasCoordinates(elements[n])
          THEN <<XmlRecord(elements[n], n, rnd)>>
          ELSE <<>>) \o ParseNodes(elements, n + 1, rnd)

parseTrafficXml_NoWellFormedCheck(xmlString, rnd) == ParseNodes(xmlString.dom.elements, 1, rnd)

\* parseTrafficXml: [] for a document with a parsererror, otherwise one record
\* per camera element with two truthy coordinates, in document order.
parseTrafficXml(xmlString, rnd) ==
    IF ~xmlString.dom.wellFormed THEN <<>> ELSE ParseNodes(xmlString.dom.elements, 1, rnd)

\* Lines 173 and 231.
Severities == <<"low", "low", "low", "medium", "medium", "high">>

\* Lines 174 and 232.
Trends == <<"improving", "stable", "stable", "escalating">>

\* list[index] of JavaScript (0-based) on a list of strings.
JsPick(list, index) == IF index < Len(list) THEN list[index + 1] ELSE "undefined"

RandomIndex_Rounded(draw, length) == (2 * draw * length + RandomSteps) \div (2 * RandomSteps)

\* Math.floor(Math.random() * length), for Math.random() = draw / RandomSteps.
RandomIndex(draw, length) == (draw * length) \div RandomSteps

\* Lines 194-196: the fields parseArcGisJson draws for a record.
ArcGisDrawn(draws) ==
    [severity |-> JsPick(Severities, RandomIndex(draws.severity, Len(Severities))),
     trend |-> JsPick(Trends, RandomIndex(draws.trend, Len(Trends))),
     confidence |-> 95 + RandomIndex(draws.confidence, 5)]

XmlSeverity_AlwaysDrawn(status, draw) == JsPick(Severities, RandomIndex(draw, Len(Severities)))

\* Line 247: the severity parseTrafficXml gives a record of that status.
XmlSeverity(status, draw) ==
    IF Includes(Chars(status), Chars("Construction"))
    THEN "medium"
    ELSE JsPick(Severities, RandomIndex(draw, Len(Severities)))

\* Lines 247-249: the fields parseTrafficXml draws for a record of that status.
XmlDrawn(status, draws) ==
    [severity |-> XmlSeverity(status, draws.severity),
     trend |-> JsPick(Trends, RandomIndex(draws.trend, Len(Trends))),
     confidence |-> 80 + RandomIndex(draws.confidence, 19)]

\* ------------------------------------------------ evaluation of a response
AuthAccepts_MoreThanOne(records) == Len(records) > 1

AuthAccepts_Any(records) == Len(records) >= 0

\* Line 115: parsed.length > 0.
AuthAccepts(records) == Len(records) > 0

RelayAccepts_MoreThanOne(records) == Len(records) > 1

RelayAccepts_Any(records) == Len(records) >= 0

\* Line 153: parsed.length > 0.
RelayAccepts(records) == Len(records) > 0

\* Lines 113-118: what the continuation does with the body of an OK
\* authoritative response.
AuthEval(body) ==
    IF JsonRejects(body)
    THEN [outcome |-> "threw", records |-> <<>>]
    ELSE LET parsed == parseArcGisJson(body)
         IN  IF parsed.threw THEN [outcome |-> "threw", records |-> <<>>]
             ELSE IF AuthAccepts(parsed.records)
             THEN [outcome |-> "success", records |-> parsed.records]
             ELSE [outcome |-> "zero", records |-> <<>>]

\* Lines 138-159: what the continuation does with the body of an OK relay
\* response; parserCalled tells whether parseTrafficXml ran.
RelayEval(proxy, body, rnd) ==
    LET value == ExtractXmlText(proxy, body)
    IN  IF value.threw
        THEN [outcome |-> "threw", parserCalled |-> FALSE, records |-> <<>>]
        ELSE IF Falsy(value)
        THEN [outcome |-> "rejected", parserCalled |-> FALSE, records |-> <<>>]
        ELSE IF value.t # "string"
        THEN [outcome |-> "threw", parserCalled |-> FALSE, records |-> <<>>]
        ELSE IF IsHtmlErrorPage(value.xml.text)
        THEN [outcome |-> "rejected", parserCalled |-> FALSE, records |-> <<>>]
        ELSE LET parsed == parseTrafficXml(value.xml, rnd)
             IN  IF RelayAccepts(parsed)
                 THEN [outcome |-> "success", parserCalled |-> TRUE, records |-> parsed]
                 ELSE [outcome |-> "zero", parserCalled |-> TRUE, records |-> <<>>]

\* -------------------------------------------------------------- the state
\* The invocations of fetchLiveCameras a caller may have in progress.
Invocations == {"A", "B"}

VARIABLES
    pc,               \* per invocation: where fetchLiveCameras is suspended
    k,                \* per invocation: the source being tried, 0 the
                      \* authoritative endpoint and n the n-th relay of PROXIES
    timer,            \* per invocation: the setTimeout of fetchWithTimeout
    requests,         \* per invocation: the requests issued so far, in order
    failed,           \* per invocation: the sources whose attempt has failed
    last,             \* per invocation: the latest event of the attempt on
                      \* source k and the body it was about
    result,           \* per invocation: the sequence returned, as returned
    resultRef,        \* per invocation: which array the returned value is
    FALLBACK_CAMERAS, \* the module-level array of line 12
    escaped,          \* whether a caller holds a reference to FALLBACK_CAMERAS
    job,              \* the input a helper of the service is applied to
    out,              \* what the helper has returned for it so far
    cacheKeys,        \* service worker: the names of the caches that exist
    entries,          \* service worker: per cache, the response stored per request
    activation,       \* service worker: progress of the activate handler
    fetchEvent,       \* service worker: progress of the fetch handler
    puts              \* service worker: cache.put calls scheduled, not yet done

vars ==
    <<pc, k, timer, requests, failed, last, result, resultRef, FALLBACK_CAMERAS, escaped, job, out,
      cacheKeys, entries, activation, fetchEvent, puts>>

\* The variables of the service worker.
worker == <<cacheKeys, entries, activation, fetchEvent, puts>>

\* Line 284.
CACHE_NAME == "traffic-os-v1"

\* The cache names that may exist, oldest first.
CacheNames == <<"traffic-os-v0", "other-app", CACHE_NAME>>

\* The requests a page sends: the legacy camera feed, a route query and the
\* application shell of the page's own origin.
ReqCameras == [origin |-> "https://trafficnz.info", id |-> "cameras"]
ReqRoute == [origin |-> "https://router.project-osrm.org", id |-> "route"]
ReqShell == [origin |-> "https://smart-cameras.example", id |-> "shell"]
WorkerRequests == {ReqCameras, ReqRoute, ReqShell}

Response(ok, via) == [ok |-> ok, via |-> via]
NoResponse == [ok |-> FALSE, via |-> "none"]

NoEntries == [r \in WorkerRequests |-> NoResponse]
NoActivation == [pc |-> "idle", before |-> {}, pending |-> {}]
NoFetchEvent ==
    [pc |-> "idle", request |-> ReqShell, strategy |-> "none", matched |-> FALSE,
     networkAsked |-> FALSE, networkFailed |-> FALSE, answer |-> "none", response |-> NoResponse]

\* No service worker in the picture.
WorkerOff ==
    /\ cacheKeys = {}
    /\ entries = [c \in {CacheNames[n] : n \in 1..Len(CacheNames)} |-> NoEntries]
    /\ activation = NoActivation
    /\ fetchEvent = NoFetchEvent
    /\ puts = {}

NoJob == [op |-> "none"]
NoOut == [stage |-> 0]

NoBody == [fmt |-> "none", kind |-> "", xml |-> TextEmpty]
NoEval == [source |-> 0, outcome |-> "none", body |-> NoBody, parserCalled |-> FALSE]

Eval(source, outcome, body, parserCalled) ==
    [source |-> source, outcome |-> outcome, body |-> body, parserCalled |-> parserCalled]

\* The request fetchWithTimeout issues for source n.
Request(n) ==
    IF n = 0
    THEN [source |-> 0, url |-> [base |-> "", endpoint |-> ARCGIS_ENDPOINT, encoded |-> FALSE]]
    ELSE [source |-> n, url |-> TargetUrl(PROXIES[n])]

NextSource_Skips(n) == IF n = 1 THEN 3 ELSE n + 1

\* The relay the for loop of line 125 visits after source n.
NextSource(n) == n + 1

\* The payloads explored while two invocations overlap: one of each outcome.
OverlapAuthBodies ==
    {AuthBody("bodyError", <<>>), AuthBody("featureCollection", <<>>),
     AuthBody("featureCollection", <<FeatGoodA>>)}

OverlapRelayBodies ==
    {RelayBody("error", "", TextEmpty), RelayBody("raw", "", TextDoctype),
     RelayBody("raw", "", TextDocument(<<NodeZero>>)),
     RelayBody("raw", "", TextDocument(<<NodeNested>>)),
     RelayBody("json", "contents", TextDocument(<<NodeDirect>>))}

\* Whether the behaviour is one of two invocations.
Overlapping == \A i \in Invocations : pc[i] # "off"

AuthPayloads == IF Overlapping THEN OverlapAuthBodies ELSE AuthBodies
RelayPayloads == IF Overlapping THEN OverlapRelayBodies ELSE RelayBodies

InitialRequests_Deduplicated(i) ==
    IF \E j \in Invocations \ {i} : pc[j] = "authFetch" THEN <<>> ELSE <<Request(0)>>

InitialRequests_Racing(i) == <<Request(0), Request(1)>>

\* Line 111: the requests an invocation has issued when it first suspends.
InitialRequests(i) == <<Request(0)>>

\* Whether the for loop has a relay left after source n.
HasNext(n) == NextSource(n) <= Len(PROXIES)

\* Line 163: what fetchLiveCameras returns when every source has failed.
FallbackResult == FALLBACK_CAMERAS

Init ==
    /\ pc = [i \in Invocations |-> IF i = "A" THEN "idle" ELSE "off"]
    /\ k = [i \in Invocations |-> 0]
    /\ timer = [i \in Invocations |-> "clear"]
    /\ requests = [i \in Invocations |-> <<>>]
    /\ failed = [i \in Invocations |-> {}]
    /\ last = [i \in Invocations |-> NoEval]
    /\ result = [i \in Invocations |-> <<>>]
    /\ resultRef = [i \in Invocations |-> "none"]
    /\ FALLBACK_CAMERAS = FallbackLiteral
    /\ escaped = FALSE
    /\ job = NoJob
    /\ out = NoOut
    /\ WorkerOff

\* Lines 106-111: the caller invokes fetchLiveCameras, which issues the
\* authoritative request under a fresh timer and suspends.
Invoke(i) ==
    /\ pc[i] \in {"idle", "done"}
    /\ pc' = [pc EXCEPT ![i] = "authFetch"]
    /\ k' = [k EXCEPT ![i] = 0]
    /\ timer' = [timer EXCEPT ![i] = "armed"]
    /\ requests' = [requests EXCEPT ![i] = InitialRequests(i)]
    /\ failed' = [failed EXCEPT ![i] = {}]
    /\ last' = [last EXCEPT ![i] = NoEval]
    /\ result' = [result EXCEPT ![i] = <<>>]
    /\ resultRef' = [resultRef EXCEPT ![i] = "none"]
    /\ UNCHANGED <<FALLBACK_CAMERAS, escaped, job, out, worker>>

\* The continuation once the attempt on source k[i] has failed (recorded as ev):
\* the next relay's request is issued under a fresh timer (lines 125-131), or,
\* past the last relay, FALLBACK_CAMERAS itself is returned (lines 162-163).
Advance(i, ev) ==
    /\ last' = [last EXCEPT ![i] = ev]
    /\ failed' = [failed EXCEPT ![i] = @ \cup {k[i]}]
    /\ IF HasNext(k[i])
       THEN /\ k' = [k EXCEPT ![i] = NextSource(k[i])]
            /\ requests' = [requests EXCEPT ![i] = Append(@, Request(NextSource(k[i])))]
            /\ timer' = [timer EXCEPT ![i] = "armed"]
            /\ pc' = [pc EXCEPT ![i] = "relayFetch"]
            /\ UNCHANGED <<result, resultRef, escaped>>
       ELSE /\ pc' = [pc EXCEPT ![i] = "done"]
            /\ timer' = [timer EXCEPT ![i] = "clear"]
            /\ result' = [result EXCEPT ![i] = FallbackResult]
            /\ resultRef' = [resultRef EXCEPT ![i] = "FALLBACK_CAMERAS"]
            /\ escaped' = TRUE
            /\ UNCHANGED <<k, requests>>
    /\ UNCHANGED FALLBACK_CAMERAS

\* return parsed (lines 117 and 155): a freshly built array is returned.
Return(i, ev, records) ==
    /\ last' = [last EXCEPT ![i] = ev]
    /\ pc' = [pc EXCEPT ![i] = "done"]
    /\ timer' = [timer EXCEPT ![i] = "clear"]
    /\ result' = [result EXCEPT ![i] = records]
    /\ resultRef' = [resultRef EXCEPT ![i] = "fresh"]
    /\ UNCHANGED <<k, requests, failed, FALLBACK_CAMERAS, escaped>>

\* Lines 93-98 and 111-112: the authoritative fetch settles before the timer
\* fires; fetchWithTimeout clears the timer.  A rejection or a non-OK status
\* sends the continuation to the relay pool, an OK status to await json().
AuthFetchSettles(i) ==
    /\ pc[i] = "authFetch"
    /\ \E outcome \in {"networkError", "notOk", "ok"} :
          IF outcome = "ok"
          THEN /\ pc' = [pc EXCEPT ![i] = "authBody"]
               /\ timer' = [timer EXCEPT ![i] = "clear"]
               /\ last' = [last EXCEPT ![i] = Eval(0, "ok", NoBody, FALSE)]
               /\ UNCHANGED <<k, requests, failed, result, resultRef, FALLBACK_CAMERAS, escaped>>
          ELSE Advance(i, Eval(0, outcome, NoBody, FALSE))
    /\ UNCHANGED <<job, out, worker>>

\* Line 91: the timer fires while the authoritative fetch is pending;
\* controller.abort() rejects the fetch, and the catch of line 120 runs.
AuthTimeout(i) ==
    /\ pc[i] = "authFetch"
    /\ timer[i] = "armed"
    /\ Advance(i, Eval(0, "timeout", NoBody, FALSE))
    /\ UNCHANGED <<job, out, worker>>

\* Lines 113-122: json() of the authoritative response settles.
AuthBodySettles(i) ==
    /\ pc[i] = "authBody"
    /\ \E body \in AuthPayloads :
          LET ev == AuthEval(body)
          IN  IF ev.outcome = "success"
              THEN Return(i, Eval(0, "success", body, FALSE), ev.records)
              ELSE Advance(i, Eval(0, ev.outcome, body, FALSE))
    /\ UNCHANGED <<job, out, worker>>

\* Lines 93-98 and 131-136: a relay fetch settles before the timer fires.
RelayFetchSettles(i) ==
    /\ pc[i] = "relayFetch"
    /\ \E outcome \in {"networkError", "notOk", "ok"} :
          IF outcome = "ok"
          THEN /\ pc' = [pc EXCEPT ![i] = "relayBody"]
               /\ timer' = [timer EXCEPT ![i] = "clear"]
               /\ last' = [last EXCEPT ![i] = Eval(k[i], "ok", NoBody, FALSE)]
               /\ UNCHANGED <<k, requests, failed, result, resultRef, FALLBACK_CAMERAS, escaped>>
          ELSE Advance(i, Eval(k[i], outcome, NoBody, FALSE))
    /\ UNCHANGED <<job, out, worker>>

\* Line 91: the timer fires while a relay fetch is pending.
RelayTimeout(i) ==
    /\ pc[i] = "relayFetch"
    /\ timer[i] = "armed"
    /\ Advance(i, Eval(k[i], "timeout", NoBody, FALSE))
    /\ UNCHANGED <<job, out, worker>>

\* Lines 138-159: json() or text() of a relay response settles.
RelayBodySettles(i) ==
    /\ pc[i] = "relayBody"
    /\ \E body \in RelayPayloads : \E rnd \in Draws(body.xml.dom.elements) :
          LET ev == RelayEval(PROXIES[k[i]], body, rnd)
          IN  IF ev.outcome = "success"
              THEN Return(i, Eval(k[i], "success", body, ev.parserCalled), ev.records)
              ELSE Advance(i, Eval(k[i], ev.outcome, body, ev.parserCalled))
    /\ UNCHANGED <<job, out, worker>>

\* A caller that was handed FALLBACK_CAMERAS empties the array it received
\* (cameras.length = 0).
CallerTruncates ==
    /\ escaped
    /\ Len(FALLBACK_CAMERAS) > 0
    /\ FALLBACK_CAMERAS' = <<>>
    /\ UNCHANGED <<pc, k, timer, requests, failed, last, result, resultRef, escaped, job, out, worker>>

\* A caller that was handed FALLBACK_CAMERAS overwrites a field of its first
\* record (cameras[0].latitude = 0).
CallerEdits ==
    /\ escaped
    /\ Len(FALLBACK_CAMERAS) > 0
    /\ FALLBACK_CAMERAS[1].latitude # Num(0)
    /\ FALLBACK_CAMERAS' = [FALLBACK_CAMERAS EXCEPT ![1].latitude = Num(0)]
    /\ UNCHANGED <<pc, k, timer, requests, failed, last, result, resultRef, escaped, job, out, worker>>

Next ==
    \/ \E i \in Invocations : Invoke(i)
    \/ \E i \in Invocations : AuthFetchSettles(i)
    \/ \E i \in Invocations : AuthTimeout(i)
    \/ \E i \in Invocations : AuthBodySettles(i)
    \/ \E i \in Invocations : RelayFetchSettles(i)
    \/ \E i \in Invocations : RelayTimeout(i)
    \/ \E i \in Invocations : RelayBodySettles(i)
    \/ CallerTruncates
    \/ CallerEdits

\* One caller, invoking fetchLiveCameras again and again.
Spec == Init /\ [][Next]_vars

\* Two invocations that may overlap in time.
InitConc ==
    /\ pc = [i \in Invocations |-> "idle"]
    /\ k = [i \in Invocations |-> 0]
    /\ timer = [i \in Invocations |-> "clear"]
    /\ requests = [i \in Invocations |-> <<>>]
    /\ failed = [i \in Invocations |-> {}]
    /\ last = [i \in Invocations |-> NoEval]
    /\ result = [i \in Invocations |-> <<>>]
    /\ resultRef = [i \in Invocations |-> "none"]
    /\ FALLBACK_CAMERAS = FallbackLiteral
    /\ escaped = FALSE
    /\ job = NoJob
    /\ out = NoOut
    /\ WorkerOff

SpecConc == InitConc /\ [][Next]_vars

\* The same, with every armed timer eventually firing.
LiveSpec ==
    /\ Spec
    /\ \A i \in Invocations : WF_vars(AuthTimeout(i)) /\ WF_vars(RelayTimeout(i))

\* ------------------------------------------------ the helpers on their own
\* The variables of fetchLiveCameras, which the helpers neither read nor write.
service == <<pc, k, timer, requests, failed, last, result, resultRef, FALLBACK_CAMERAS, escaped>>

UrlJob(url) == [op |-> "url", url |-> url]

\* Camera elements over every combination of nested and direct coordinate
\* elements (absent, empty, filled), in both document orders, and over status
\* texts with and without the word Construction.
SampleNodes ==
    {Node("camera", "1", status, nestedLat, nestedLng, directLat, directLng, locationFirst) :
        status \in {"", "Offline", "Construction", "Road Construction ahead", "construction"},
        nestedLat \in {NoEl, El(""), El("-36.8")},
        directLat \in {NoEl, El(""), El("-41.2")},
        nestedLng \in {NoEl, El("174.7")},
        directLng \in {NoEl, El("175.1")},
        locationFirst \in BOOLEAN}

\* A document of one camera element, and the Math.random() of line 247.
NodeJob(node, draw) == [op |-> "node", node |-> node, draw |-> draw]

\* A document and the draws of line 235 for its elements without an id.
DocJob(doc, rnd) == [op |-> "doc", doc |-> doc, rnd |-> rnd]

\* What the offline attribute of a feature may hold.
OfflineValues ==
    {AttrAbsent, AttrBool(TRUE), AttrBool(FALSE), AttrText("true"), AttrText("True"),
     AttrText("TRUE"), AttrText("false"), AttrText(""), AttrText(" true"), AttrText("1")}

\* Readable features over every value of the offline attribute.
SampleFeatures ==
    {Feature(TRUE, "7", "", offline, TRUE, TRUE, <<Num(174700), Num(-36800)>>) :
        offline \in OfflineValues}

\* A feature collection of one feature.
FeatureJob(feature) == [op |-> "feature", feature |-> feature]

\* The three Math.random() calls made for one record.
DrawsJob(severity, trend, confidence) ==
    [op |-> "draws", severity |-> severity, trend |-> trend, confidence |-> confidence]

Jobs ==
    {UrlJob(url) : url \in ImageRefs}
        \cup {DrawsJob(x, y, z) : x, y, z \in 0..(RandomSteps - 1)}
        \cup {FeatureJob(feature) : feature \in SampleFeatures}
        \cup {NodeJob(node, draw) : node \in SampleNodes, draw \in 0..(RandomSteps - 1)}
        \cup UNION {{DocJob(doc, rnd) : rnd \in Draws(doc.dom.elements)} : doc \in XmlTexts}

\* The document with every camera element renamed to the other accepted tag.
Rename(doc) ==
    [doc EXCEPT !.dom.elements =
        [n \in 1..Len(@) |->
            [@[n] EXCEPT !.tag = CASE @ = "trafficCamera" -> "camera"
                                   [] @ = "camera" -> "trafficCamera"
                                   [] OTHER -> @]]]

\* No invocation in progress, and one input picked for a helper.
InitParse ==
    /\ pc = [i \in Invocations |-> "off"]
    /\ k = [i \in Invocations |-> 0]
    /\ timer = [i \in Invocations |-> "clear"]
    /\ requests = [i \in Invocations |-> <<>>]
    /\ failed = [i \in Invocations |-> {}]
    /\ last = [i \in Invocations |-> NoEval]
    /\ result = [i \in Invocations |-> <<>>]
    /\ resultRef = [i \in Invocations |-> "none"]
    /\ FALLBACK_CAMERAS = FallbackLiteral
    /\ escaped = FALSE
    /\ job \in Jobs
    /\ out = NoOut
    /\ WorkerOff

\* Lines 185 and 238: a parser passes the image reference of an entry to
\* normalizeImageUrl and stores what it returns in the record.
NormalizeUrl ==
    /\ job.op = "url"
    /\ out.stage = 0
    /\ out' = [stage |-> 1, imageUrl |-> normalizeImageUrl(job.url)]
    /\ UNCHANGED <<service, job, worker>>

\* normalizeImageUrl applied to a URL it has returned.
NormalizeAgain ==
    /\ job.op = "url"
    /\ out.stage = 1
    /\ out' = [stage |-> 2, imageUrl |-> out.imageUrl, again |-> normalizeImageUrl(out.imageUrl)]
    /\ UNCHANGED <<service, job, worker>>

\* Lines 206-256: parseTrafficXml on a document of one camera element; the
\* severity of line 247 is kept beside each record.
ParseNode ==
    /\ job.op = "node"
    /\ out.stage = 0
    /\ LET parsed == parseTrafficXml(TextDocument(<<job.node>>), <<>>)
       IN  out' = [stage |-> 1,
                   records |-> parsed,
                   severity |-> [n \in 1..Len(parsed) |-> XmlSeverity(parsed[n].status, job.draw)]]
    /\ UNCHANGED <<service, job, worker>>

\* Lines 206-256: parseTrafficXml on a document.
ParseDocument ==
    /\ job.op = "doc"
    /\ out.stage = 0
    /\ out' = [stage |-> 1, records |-> parseTrafficXml(job.doc, job.rnd)]
    /\ UNCHANGED <<service, job, worker>>

\* parseTrafficXml on the same document under the other tag scheme, with the
\* same draws.
ParseRenamed ==
    /\ job.op = "doc"
    /\ out.stage = 1
    /\ out' = [stage |-> 2, records |-> out.records,
               renamed |-> parseTrafficXml(Rename(job.doc), job.rnd)]
    /\ UNCHANGED <<service, job, worker>>

\* Lines 170-200: parseArcGisJson on a feature collection of one feature.
ParseFeature ==
    /\ job.op = "feature"
    /\ out.stage = 0
    /\ out' = [stage |-> 1,
               parsed |-> parseArcGisJson(AuthBody("featureCollection", <<job.feature>>))]
    /\ UNCHANGED <<service, job, worker>>

\* Lines 194-196 and 247-249: either parser draws severity, trend and
\* confidence for a record (here one whose status is "Operational").
DrawFields ==
    /\ job.op = "draws"
    /\ out.stage = 0
    /\ out' = [stage |-> 1, arcgis |-> ArcGisDrawn(job), xml |-> XmlDrawn("Operational", job)]
    /\ UNCHANGED <<service, job, worker>>

NextParse ==
    \/ ParseFeature
    \/ DrawFields
    \/ NormalizeUrl
    \/ NormalizeAgain
    \/ ParseNode
    \/ ParseDocument
    \/ ParseRenamed

SpecParse == InitParse /\ [][NextParse]_vars

\* ------------------------------------------------------ the service worker
CacheNameSet == {CacheNames[n] : n \in 1..Len(CacheNames)}

\* What the caches hold when the worker is activated: the current cache the
\* shell stored by the install handler (lines 297-304), the cache of the
\* previous version a stale shell and a stale camera feed.
InstalledEntries(name) ==
    CASE name = CACHE_NAME -> [NoEntries EXCEPT ![ReqShell] = Response(TRUE, "install")]
      [] name = "traffic-os-v0" ->
           [NoEntries EXCEPT ![ReqShell] = Response(TRUE, "old"), ![ReqCameras] = Response(TRUE, "old")]
      [] OTHER -> NoEntries

\* A worker about to be activated, over any set of existing caches.
InitWorker ==
    /\ pc = [i \in Invocations |-> "off"]
    /\ k = [i \in Invocations |-> 0]
    /\ timer = [i \in Invocations |-> "clear"]
    /\ requests = [i \in Invocations |-> <<>>]
    /\ failed = [i \in Invocations |-> {}]
    /\ last = [i \in Invocations |-> NoEval]
    /\ result = [i \in Invocations |-> <<>>]
    /\ resultRef = [i \in Invocations |-> "none"]
    /\ FALLBACK_CAMERAS = FallbackLiteral
    /\ escaped = FALSE
    /\ job = NoJob
    /\ out = NoOut
    /\ cacheKeys \in SUBSET CacheNameSet
    /\ entries = [c \in CacheNameSet |-> IF c \in cacheKeys THEN InstalledEntries(c) ELSE NoEntries]
    /\ activation = NoActivation
    /\ fetchEvent = NoFetchEvent
    /\ puts = {}

ShouldDelete_OlderVersions(cache) == cache = "traffic-os-v0"

\* Line 311: cache !== CACHE_NAME
ShouldDelete(cache) == cache # CACHE_NAME

\* Lines 307-309: the activate event arrives and the handler calls caches.keys().
ActivateEvent ==
    /\ activation.pc = "idle"
    /\ activation' = [pc |-> "keys", before |-> cacheKeys, pending |-> {}]
    /\ UNCHANGED <<service, job, out, cacheKeys, entries, fetchEvent, puts>>

\* Lines 309-316: caches.keys() resolves and caches.delete is called for
\* every name that differs from CACHE_NAME.
KeysResolve ==
    /\ activation.pc = "keys"
    /\ activation' = [activation EXCEPT !.pc = "deleting",
                                        !.pending = {c \in cacheKeys : ShouldDelete(c)}]
    /\ UNCHANGED <<service, job, out, cacheKeys, entries, fetchEvent, puts>>

\* One caches.delete completes; the deletions complete in any order.
DeleteCompletes ==
    /\ activation.pc = "deleting"
    /\ \E c \in activation.pending :
          /\ cacheKeys' = cacheKeys \ {c}
          /\ entries' = [entries EXCEPT ![c] = NoEntries]
          /\ activation' = [activation EXCEPT !.pending = @ \ {c}]
    /\ UNCHANGED <<service, job, out, fetchEvent, puts>>

\* Promise.all resolves, which ends the work event.waitUntil was given.
ActivateCompletes ==
    /\ activation.pc = "deleting"
    /\ activation.pending = {}
    /\ activation' = [activation EXCEPT !.pc = "done"]
    /\ UNCHANGED <<service, job, out, cacheKeys, entries, fetchEvent, puts>>

\* Line 328: the request goes to a live data feed.
IsLive(request) ==
    \/ Includes(Chars(request.origin), Chars("trafficnz.info"))
    \/ Includes(Chars(request.origin), Chars("router.project-osrm.org"))

ShouldStore_Always(response) == TRUE

\* Line 349: on the cache-first path only OK responses are stored.
ShouldStore(response) == response.ok

\* caches.match(request): the entry of the oldest cache that has one.
RECURSIVE MatchFrom(_, _)
MatchFrom(n, request) ==
    IF n > Len(CacheNames)
    THEN NoResponse
    ELSE IF CacheNames[n] \in cacheKeys /\ entries[CacheNames[n]][request] # NoResponse
    THEN entries[CacheNames[n]][request]
    ELSE MatchFrom(n + 1, request)

CacheMatch(request) == MatchFrom(1, request)

\* caches.open(CACHE_NAME).then(cache => cache.put(request, clone)), scheduled
\* and not awaited.
Put(request, response, strategy) ==
    [request |-> request, response |-> response, strategy |-> strategy]

\* Lines 323-330 and 344-345: a fetch event arrives at the active worker; the
\* handler calls fetch(request) for a live feed and caches.match(request) for
\* anything else.
FetchEvent ==
    /\ activation.pc = "done"
    /\ fetchEvent.pc \in {"idle", "done"}
    /\ Cardinality(puts) < MaxPendingPuts
    /\ \E request \in WorkerRequests :
          fetchEvent' =
              IF IsLive(request)
              THEN [NoFetchEvent EXCEPT !.pc = "network", !.request = request,
                                        !.strategy = "networkFirst", !.networkAsked = TRUE]
              ELSE [NoFetchEvent EXCEPT !.pc = "match", !.request = request,
                                        !.strategy = "cacheFirst"]
    /\ UNCHANGED <<service, job, out, cacheKeys, entries, activation, puts>>

\* Lines 345-347: caches.match resolves on the cache-first path; a hit is the
\* answer, a miss leads to fetch(request).
MatchResolves ==
    /\ fetchEvent.pc = "match"
    /\ fetchEvent' =
          IF CacheMatch(fetchEvent.request) # NoResponse
          THEN [fetchEvent EXCEPT !.pc = "done", !.matched = TRUE, !.answer = "cache",
                                  !.response = CacheMatch(fetchEvent.request)]
          ELSE [fetchEvent EXCEPT !.pc = "network", !.networkAsked = TRUE]
    /\ UNCHANGED <<service, job, out, cacheKeys, entries, activation, puts>>

\* Lines 331-337 and 347-356: fetch(request) resolves with a response, OK or
\* not; the response is the answer, and a put of its clone is scheduled
\* (always on the network-first path, for an OK response on the other).
NetworkResolves ==
    /\ fetchEvent.pc = "network"
    /\ \E ok \in BOOLEAN :
          LET response == Response(ok, "network")
          IN  /\ fetchEvent' = [fetchEvent EXCEPT !.pc = "done", !.answer = "network",
                                                  !.response = response]
              /\ puts' = IF fetchEvent.strategy = "networkFirst" \/ ShouldStore(response)
                         THEN puts \cup {Put(fetchEvent.request, response, fetchEvent.strategy)}
                         ELSE puts
    /\ UNCHANGED <<service, job, out, cacheKeys, entries, activation>>

\* fetch(request) rejects: the catch of line 339 calls caches.match on the
\* network-first path; on the other path the rejection is the answer.
NetworkRejects ==
    /\ fetchEvent.pc = "network"
    /\ fetchEvent' =
          IF fetchEvent.strategy = "networkFirst"
          THEN [fetchEvent EXCEPT !.pc = "fallbackMatch", !.networkFailed = TRUE]
          ELSE [fetchEvent EXCEPT !.pc = "done", !.networkFailed = TRUE, !.answer = "error"]
    /\ UNCHANGED <<service, job, out, cacheKeys, entries, activation, puts>>

\* Line 339: caches.match resolves in the catch; a hit is the answer, a miss
\* resolves respondWith with undefined.
FallbackMatchResolves ==
    /\ fetchEvent.pc = "fallbackMatch"
    /\ fetchEvent' =
          IF CacheMatch(fetchEvent.request) # NoResponse
          THEN [fetchEvent EXCEPT !.pc = "done", !.matched = TRUE, !.answer = "cache",
                                  !.response = CacheMatch(fetchEvent.request)]
          ELSE [fetchEvent EXCEPT !.pc = "done", !.answer = "error"]
    /\ UNCHANGED <<service, job, out, cacheKeys, entries, activation, puts>>

\* Lines 334-336 and 351-353: a scheduled put completes; caches.open creates
\* the cache if it does not exist.
PutCompletes ==
    /\ \E p \in puts :
          /\ cacheKeys' = cacheKeys \cup {CACHE_NAME}
          /\ entries' = [entries EXCEPT ![CACHE_NAME][p.request] = p.response]
          /\ puts' = puts \ {p}
    /\ UNCHANGED <<service, job, out, activation, fetchEvent>>

NextWorker ==
    \/ ActivateEvent
    \/ KeysResolve
    \/ DeleteCompletes
    \/ ActivateCompletes
    \/ FetchEvent
    \/ MatchResolves
    \/ NetworkResolves
    \/ NetworkRejects
    \/ FallbackMatchResolves
    \/ PutCompletes

SpecWorker == InitWorker /\ [][NextWorker]_vars

TypeOK ==
    /\ pc \in [Invocations -> {"off", "idle", "authFetch", "authBody", "relayFetch", "relayBody", "done"}]
    /\ k \in [Invocations -> 0..Len(PROXIES)]
    /\ timer \in [Invocations -> {"clear", "armed"}]
    /\ resultRef \in [Invocations -> {"none", "fresh", "FALLBACK_CAMERAS"}]
    /\ escaped \in BOOLEAN

\* ================================================================ claims
HasAuthBody(ev) == ev.source = 0 /\ "features" \in DOMAIN ev.body
HasRelayBody(ev) == ev.source >= 1 /\ ev.body.fmt # "none"

\* The authoritative payload parses to at least one record.
AuthParses(body) ==
    /\ ~JsonRejects(body)
    /\ ~parseArcGisJson(body).threw
    /\ Len(parseArcGisJson(body).records) >= 1

\* The authoritative attempt has failed: network error, timeout, non-OK
\* status, or an OK response whose payload does not parse to a record.
AuthFailed(ev) ==
    /\ ev.source = 0
    /\ \/ ev.outcome \in {"networkError", "timeout", "notOk"}
       \/ HasAuthBody(ev) /\ ~AuthParses(ev.body)

\* The legacy parser is reached with the payload and yields a record.
RelayParses(ev) ==
    LET value == ExtractXmlText(PROXIES[ev.source], ev.body)
    IN  /\ ~value.threw
        /\ value.t = "string"
        /\ value.xml.text # <<>>
        /\ ~IsHtmlErrorPage(value.xml.text)
        /\ \E rnd \in Draws(value.xml.dom.elements) : Len(parseTrafficXml(value.xml, rnd)) >= 1

\* The attempt on a relay has failed: NetworkFailure, Timeout,
\* MalformedPayload or ZeroRecords.
RelayFailed(ev) ==
    /\ ev.source >= 1
    /\ \/ ev.outcome \in {"networkError", "timeout", "notOk"}
       \/ HasRelayBody(ev) /\ ~RelayParses(ev)

\* C1: whatever the upstreams do, a returned sequence holds at least one record.
C1_ResultNeverEmpty ==
    \A i \in Invocations : pc[i] = "done" => Len(result[i]) >= 1

\* C2: with timers that eventually fire, every invocation eventually returns,
\* also when an upstream stalls while delivering a response body.
C2_EveryInvocationReturns ==
    \A i \in Invocations : (pc[i] = "authFetch") ~> (pc[i] = "done")

\* C3: an OK authoritative response whose payload parses to at least one
\* record makes the invocation return exactly those records, freshly built,
\* without any relay request.
C3_AuthSuccessShortCircuits ==
    \A i \in Invocations :
        (HasAuthBody(last[i]) /\ AuthParses(last[i].body)) =>
            /\ pc[i] = "done"
            /\ resultRef[i] = "fresh"
            /\ result[i] = parseArcGisJson(last[i].body).records
            /\ requests[i] = <<Request(0)>>

C3_Witness ==
    \E i \in Invocations :
        /\ pc[i] = "done"
        /\ HasAuthBody(last[i])
        /\ last[i].body.features = <<FeatGoodA, FeatGoodB>>
        /\ Len(result[i]) = 2

\* C4: once the authoritative attempt has failed in any way, the invocation
\* has not returned and the request to the first relay of the pool is issued.
C4_AuthFailureGoesToFirstRelay ==
    \A i \in Invocations :
        AuthFailed(last[i]) =>
            /\ pc[i] = "relayFetch"
            /\ resultRef[i] = "none"
            /\ Len(requests[i]) = 2
            /\ requests[i][2].source = 1
            /\ requests[i][2].url.base = "https://api.allorigins.win/get?url="

\* Scenario A: an empty feature array.
C4_Witness ==
    \E i \in Invocations :
        /\ HasAuthBody(last[i])
        /\ last[i].body = AuthBody("featureCollection", <<>>)
        /\ pc[i] = "relayFetch"

\* The relay pool in the order it is declared.
DeclaredOrder ==
    << "https://api.allorigins.win/get?url=", "https://corsproxy.io/?",
       "https://api.codetabs.com/v1/proxy?url=", "https://thingproxy.freeboard.io/fetch/" >>

\* C5: within an invocation the authoritative endpoint is requested exactly
\* once and first, the relays in declared order, each at most once, and the
\* request to a source is issued only when every source before it has failed.
C5_DeclaredOrderNoRetry ==
    \A i \in Invocations :
        /\ Len(requests[i]) <= 1 + Len(DeclaredOrder)
        /\ pc[i] \notin {"off", "idle"} => Len(requests[i]) >= 1
        /\ \A n \in 1..Len(requests[i]) :
              /\ requests[i][n].source = n - 1
              /\ n = 1 => requests[i][n].url.endpoint = ARCGIS_ENDPOINT
              /\ n > 1 => requests[i][n].url.base = DeclaredOrder[n - 1]
              /\ \A m \in 0..(n - 2) : m \in failed[i]

C5_Witness ==
    \E i \in Invocations : Len(requests[i]) = 5 /\ failed[i] = 0..3

\* C6: the first relay whose payload parses to at least one record ends the
\* invocation with exactly the records parsed from that payload; no later
\* relay is requested and no result mixes records of two sources.
C6_FirstRelaySuccessWins ==
    \A i \in Invocations :
        /\ (HasRelayBody(last[i]) /\ RelayParses(last[i])) =>
              /\ pc[i] = "done"
              /\ resultRef[i] = "fresh"
              /\ \E rnd \in Draws(last[i].body.xml.dom.elements) :
                    result[i] = parseTrafficXml(ExtractXmlText(PROXIES[last[i].source], last[i].body).xml, rnd)
              /\ Len(requests[i]) = last[i].source + 1
        /\ pc[i] = "done" =>
              \A m, n \in 1..Len(result[i]) : result[i][m].source = result[i][n].source

C6_Witness ==
    \E i \in Invocations :
        /\ pc[i] = "done"
        /\ last[i].source = 2
        /\ HasRelayBody(last[i])
        /\ last[i].body.xml = TextDocument(<<NodeNested, NodeDirect>>)
        /\ Len(result[i]) = 2

\* C7: when every source has failed the result is the three static records,
\* "FB-AKL-01", "FB-AKL-02", "FB-WLG-01" in that order with non-zero
\* coordinates, on every invocation.
C7_FallbackIsTheStaticThree ==
    \A i \in Invocations :
        (pc[i] = "done" /\ failed[i] = 0..Len(PROXIES)) =>
            /\ Len(result[i]) = 3
            /\ result[i][1].id = "FB-AKL-01"
            /\ result[i][2].id = "FB-AKL-02"
            /\ result[i][3].id = "FB-WLG-01"
            /\ \A n \in 1..3 :
                  /\ IsNumeric(result[i][n].latitude) /\ result[i][n].latitude.v # 0
                  /\ IsNumeric(result[i][n].longitude) /\ result[i][n].longitude.v # 0

\* C8: a relay attempt that fails in any of the four kinds propagates
\* nothing and returns no record of that relay: the next relay is requested,
\* or, after the last relay, the static fallback array is returned.
C8_RelayFailuresAdvance ==
    \A i \in Invocations :
        RelayFailed(last[i]) =>
            /\ last[i].source \in failed[i]
            /\ IF last[i].source < Len(DeclaredOrder)
               THEN /\ pc[i] = "relayFetch"
                    /\ resultRef[i] = "none"
                    /\ requests[i][Len(requests[i])].source = last[i].source + 1
               ELSE /\ pc[i] = "done"
                    /\ resultRef[i] = "FALLBACK_CAMERAS"
                    /\ \A n \in 1..Len(result[i]) : result[i][n].source = "Static Matrix Fallback"

C8_Witness ==
    \E i \in Invocations :
        /\ last[i].source = 4
        /\ HasRelayBody(last[i])
        /\ last[i].body.xml = TextDocument(<<NodeZero>>)
        /\ last[i].parserCalled
        /\ resultRef[i] = "FALLBACK_CAMERAS"

Lower(c) ==
    CASE c = "D" -> "d" [] c = "O" -> "o" [] c = "C" -> "c" [] c = "T" -> "t"
      [] c = "Y" -> "y" [] c = "P" -> "p" [] c = "E" -> "e" [] c = "H" -> "h"
      [] c = "M" -> "m" [] c = "L" -> "l" [] OTHER -> c

LowerAll(s) == [n \in 1..Len(s) |-> Lower(s[n])]

\* The text starts, after leading whitespace, with a DOCTYPE declaration or a
\* root html tag (markup names are case-insensitive in HTML).
IsDoctypeOrHtml(text) ==
    \/ StartsWith(LowerAll(TrimStart(text)), <<"<", "!", "d", "o", "c", "t", "y", "p", "e">>)
    \/ StartsWith(LowerAll(TrimStart(text)), <<"<", "h", "t", "m", "l">>)

\* C9: for an OK relay response whose extracted payload is empty or starts
\* with a DOCTYPE declaration or a root html tag, the legacy parser is not
\* invoked and the orchestrator advances.
C9_HtmlPayloadNeverParsed ==
    \A i \in Invocations :
        LET value == ExtractXmlText(PROXIES[last[i].source], last[i].body)
        IN  (/\ HasRelayBody(last[i])
             /\ ~value.threw
             /\ value.t = "string"
             /\ value.xml.text = <<>> \/ IsDoctypeOrHtml(value.xml.text)) =>
                /\ ~last[i].parserCalled
                /\ last[i].source \in failed[i]

\* C10: every record of every returned result has a numeric, non-zero
\* latitude and longitude.
C10_CoordinatesNumericNonZero ==
    \A i \in Invocations :
        pc[i] = "done" =>
            \A n \in 1..Len(result[i]) :
                /\ IsNumeric(result[i][n].latitude) /\ result[i][n].latitude.v # 0
                /\ IsNumeric(result[i][n].longitude) /\ result[i][n].longitude.v # 0

\* The identifiers the entries of a payload came with, in document order
\* ("" for an entry that came without one).
GivenIds(ev) ==
    IF HasAuthBody(ev)
    THEN [n \in 1..Len(ev.body.features) |->
             OrElse(ev.body.features[n].properties.id, ev.body.features[n].properties.ObjectId)]
    ELSE IF HasRelayBody(ev)
    THEN [n \in 1..Len(ev.body.xml.dom.elements) |-> ev.body.xml.dom.elements[n].id]
    ELSE <<>>

\* No two entries of the payload came with the same identifier.
GivenIdsDistinct(ev) ==
    \A m, n \in 1..Len(GivenIds(ev)) :
        (m # n /\ GivenIds(ev)[m] # "") => GivenIds(ev)[m] # GivenIds(ev)[n]

\* C11: within one returned result every record has a non-empty identifier
\* and no two records share one, also where the identifier was synthesized
\* because the source gave none (stated for payloads whose given identifiers
\* are themselves distinct).
C11_IdsNonEmptyAndUnique ==
    \A i \in Invocations :
        (pc[i] = "done" /\ resultRef[i] = "fresh" /\ GivenIdsDistinct(last[i])) =>
            /\ \A n \in 1..Len(result[i]) : result[i][n].id # ""
            /\ \A m, n \in 1..Len(result[i]) :
                   m # n => result[i][m].id # result[i][n].id

\* C12: the image URL stored in a record is absolute and uses https, whatever
\* the image reference of the upstream entry was (absent, root-relative, a bare
\* file name, another relative path, an http or https URL on any host).
C12_ImageUrlAbsoluteHttps ==
    (job.op = "url" /\ out.stage >= 1) => StartsWith(out.imageUrl, Chars("https://"))

\* C13: normalizeImageUrl applied to its own output returns that output.
C13_NormalizeIdempotent ==
    (job.op = "url" /\ out.stage = 2) => out.again = out.imageUrl

\* C14: on every path an invocation returns a sequence built for that
\* invocation, and what a caller does to a sequence it was handed leaves the
\* arrays the service keeps as they were.
C14_ResultsAreFresh ==
    /\ \A i \in Invocations : pc[i] = "done" => resultRef[i] = "fresh"
    /\ FALLBACK_CAMERAS = FallbackLiteral

\* What belongs to one invocation: its position, its timer, its requests and
\* what it has concluded and returned.
Own(i) == <<pc[i], k[i], timer[i], requests[i], failed[i], last[i], result[i], resultRef[i]>>

InFlight(i) == pc[i] \in {"authFetch", "authBody", "relayFetch", "relayBody"}

\* The requests of the sources 0..n, in the declared order.
RequestsUpTo(n) == [m \in 1..(n + 1) |-> Request(m - 1)]

\* The invocation has issued its own request for every source it has reached,
\* its timer is armed exactly while its own fetch is pending, and where it
\* stands follows from the events of its own attempts.
RunsOnItsOwn(i) ==
    /\ (InFlight(i) \/ pc[i] = "done") => requests[i] = RequestsUpTo(k[i])
    /\ timer[i] = "armed" <=> pc[i] \in {"authFetch", "relayFetch"}
    /\ InFlight(i) => failed[i] = 0..(k[i] - 1)
    /\ pc[i] = "done" =>
          IF last[i].outcome = "success"
          THEN /\ resultRef[i] = "fresh"
               /\ last[i].source = k[i]
               /\ failed[i] = 0..(k[i] - 1)
               /\ \A n \in 1..Len(result[i]) :
                      result[i][n].source =
                          IF k[i] = 0 THEN "NZTA ArcGIS (Authoritative)" ELSE "TrafficNZ REST v4"
          ELSE /\ resultRef[i] = "FALLBACK_CAMERAS"
               /\ failed[i] = 0..Len(PROXIES)

\* C15: two overlapping invocations run independently under every
\* interleaving: each issues its own authoritative and relay requests under
\* its own timer, a step of one (a settlement, a failure, an abort) changes
\* nothing of the other, and the source an invocation ends on follows from
\* the responses to its own requests.
C15_OverlappingInvocationsIndependent ==
    /\ [](\A i \in Invocations : RunsOnItsOwn(i))
    /\ [][\A i, j \in Invocations : (i # j /\ Own(i)' # Own(i)) => Own(j)' = Own(j)]_vars

\* One invocation has had a request aborted by its timer and moved on while
\* the other still waits on its authoritative request, timer armed.
C15_Witness ==
    \E i, j \in Invocations :
        /\ i # j
        /\ last[i].outcome = "timeout"
        /\ pc[i] = "relayFetch"
        /\ pc[j] = "authFetch"
        /\ timer[j] = "armed"
        /\ requests[j] = <<Request(0)>>

\* The attempts an invocation has concluded: those that failed and the one
\* whose records it returned.
Concluded(i) ==
    Cardinality(failed[i]) + (IF pc[i] = "done" /\ resultRef[i] = "fresh" THEN 1 ELSE 0)

\* The requests issued and not yet concluded.
Outstanding(i) == Len(requests[i]) - Concluded(i)

\* C16: within one invocation at most one request is in flight at any
\* moment: every request but the latest was concluded as a failure (settled
\* or aborted, and its response evaluated) before the latest was issued.
C16_OneRequestInFlight ==
    \A i \in Invocations :
        /\ Outstanding(i) \in {0, 1}
        /\ Outstanding(i) = 1 <=> InFlight(i)
        /\ \A n \in 1..(Len(requests[i]) - 1) : requests[i][n].source \in failed[i]

\* The third request of an invocation is in flight, issued after the second
\* was aborted by its timer.
C16_Witness ==
    \E i \in Invocations :
        /\ pc[i] = "relayFetch"
        /\ Len(requests[i]) = 3
        /\ last[i].outcome = "timeout"
        /\ failed[i] = {0, 1}

AuthSucceeded(i) == last[i].source = 0 /\ last[i].outcome = "success"
RelaySucceeded(i) == last[i].source >= 1 /\ last[i].outcome = "success"
EverySourceFailed(i) == failed[i] = 0..Len(PROXIES)

\* C17: the source label of a returned result tells the path it came from:
\* every record carries 'NZTA ArcGIS (Authoritative)' exactly when the
\* authoritative attempt succeeded, 'TrafficNZ REST v4' exactly when a relay
\* attempt succeeded and 'Static Matrix Fallback' exactly when every source
\* failed, so all records of one result carry one label.
C17_SourceLabelTellsPath ==
    \A i \in Invocations :
        pc[i] = "done" =>
            /\ \A n \in 1..Len(result[i]) :
                   /\ result[i][n].source = "NZTA ArcGIS (Authoritative)" <=> AuthSucceeded(i)
                   /\ result[i][n].source = "TrafficNZ REST v4" <=> RelaySucceeded(i)
                   /\ result[i][n].source = "Static Matrix Fallback" <=> EverySourceFailed(i)
            /\ \A m, n \in 1..Len(result[i]) : result[i][m].source = result[i][n].source

\* A result of two records from the authoritative endpoint, returned by an
\* invocation that follows one that ended on the fallback.
C17_Witness ==
    \E i \in Invocations :
        /\ pc[i] = "done"
        /\ AuthSucceeded(i)
        /\ Len(result[i]) = 2
        /\ result[i][2].source = "NZTA ArcGIS (Authoritative)"
        /\ escaped

\* C18: every record whose status text contains "Construction" has severity
\* "medium", whatever Math.random() returns.
C18_ConstructionIsMedium ==
    (job.op = "node" /\ out.stage = 1) =>
        \A n \in 1..Len(out.records) :
            Includes(Chars(out.records[n].status), Chars("Construction")) =>
                out.severity[n] = "medium"

\* A record under construction for which the draw would have picked "high".
C18_Witness ==
    /\ job.op = "node"
    /\ out.stage = 1
    /\ job.draw = RandomSteps - 1
    /\ Len(out.records) = 1
    /\ out.records[1].status = "Road Construction ahead"
    /\ out.severity[1] = "medium"

\* The camera elements of a document.
CameraEntries(doc) ==
    {n \in 1..Len(doc.dom.elements) : doc.dom.elements[n].tag \in {"trafficCamera", "camera"}}

\* C19: renaming the camera elements of a well-formed document from one
\* accepted tag to the other leaves the output of parseTrafficXml unchanged
\* in count, order and every field that is not drawn at random, and no camera
\* element yields more than one record.
C19_TagSchemeInvariant ==
    (job.op = "doc" /\ out.stage = 2 /\ job.doc.dom.wellFormed) =>
        /\ out.renamed = out.records
        /\ Len(out.records) <= Cardinality(CameraEntries(job.doc))

\* A document using both tag names, two records out of it under either scheme.
C19_Witness ==
    /\ job.op = "doc"
    /\ out.stage = 2
    /\ job.doc = TextDocument(<<NodeNested, NodeDirect>>)
    /\ Len(out.records) = 2
    /\ Len(out.renamed) = 2

\* The coordinate as the claim reads it: the text of the nested element when
\* that element is present and not empty, otherwise that of the direct element.
NestedElseDirect(node, name) ==
    IF node.location[name].present /\ node.location[name].text # ""
    THEN ParseFloat(node.location[name].text)
    ELSE ParseFloat(OrElse(getVal(node[name]), "0"))

\* C20: each coordinate of a record is taken from the element nested under
\* location when that is present with non-empty text, and from the direct
\* element of the node only otherwise.
C20_NestedElseDirectCoordinate ==
    (job.op = "node" /\ out.stage = 1) =>
        IF Truthy(NestedElseDirect(job.node, "latitude")) /\ Truthy(NestedElseDirect(job.node, "longitude"))
        THEN /\ Len(out.records) = 1
             /\ out.records[1].latitude = NestedElseDirect(job.node, "latitude")
             /\ out.records[1].longitude = NestedElseDirect(job.node, "longitude")
        ELSE out.records = <<>>

\* C21: parseTrafficXml given a document that is not well-formed returns the
\* empty sequence without throwing: the relay that delivered it counts as
\* having produced zero records, and the next relay is requested (after the
\* last relay, the fallback is returned).
C21_MalformedDocumentYieldsNothing ==
    \A i \in Invocations :
        LET value == ExtractXmlText(PROXIES[last[i].source], last[i].body)
        IN  (/\ HasRelayBody(last[i])
             /\ last[i].parserCalled
             /\ ~value.xml.dom.wellFormed) =>
                /\ last[i].outcome = "zero"
                /\ last[i].source \in failed[i]
                /\ IF last[i].source < Len(PROXIES)
                   THEN /\ pc[i] = "relayFetch"
                        /\ requests[i][Len(requests[i])].source = last[i].source + 1
                   ELSE pc[i] = "done" /\ resultRef[i] = "FALLBACK_CAMERAS"

\* The second relay delivered a truncated document, the parser ran on it, and
\* the third relay has been requested.
C21_Witness ==
    \E i \in Invocations :
        /\ HasRelayBody(last[i])
        /\ last[i].source = 2
        /\ last[i].body = RelayBody("raw", "", TextTruncated)
        /\ last[i].parserCalled
        /\ pc[i] = "relayFetch"
        /\ k[i] = 3

\* The feature has no geometry or no attributes mapping.
Unmappable(feature) == ~feature.properties.present \/ ~feature.geometry.present

\* C22: the authoritative path returns exactly one record per feature of the
\* response, in feature order; when a single feature has no geometry or no
\* attributes, no authoritative record is returned and the invocation goes on
\* to the relay pool.
C22_OneRecordPerFeature ==
    \A i \in Invocations :
        (HasAuthBody(last[i]) /\ last[i].body.kind = "featureCollection") =>
            LET features == last[i].body.features
            IN  /\ (pc[i] = "done" /\ resultRef[i] = "fresh") =>
                       /\ Len(result[i]) = Len(features)
                       /\ \A n \in 1..Len(features) : result[i][n] = ArcGisRecord(features[n])
                /\ (\E n \in 1..Len(features) : Unmappable(features[n])) =>
                       /\ last[i].outcome = "threw"
                       /\ resultRef[i] = "none"
                       /\ pc[i] = "relayFetch"
                       /\ requests[i] = <<Request(0), Request(1)>>

\* A response of one good feature followed by one without geometry: nothing
\* is returned and the first relay has been requested.
C22_Witness ==
    \E i \in Invocations :
        /\ HasAuthBody(last[i])
        /\ last[i].body = AuthBody("featureCollection", <<FeatGoodA, FeatNoGeometry>>)
        /\ pc[i] = "relayFetch"
        /\ k[i] = 1

\* C23: a record of the authoritative parser has status "Offline" exactly
\* when the offline attribute of its feature is the string "true"; for every
\* other value (absent, a boolean, "True", "false", another string) the status
\* is "Operational", and no third status occurs.
C23_OfflineOnlyForStringTrue ==
    (job.op = "feature" /\ out.stage = 1) =>
        /\ ~out.parsed.threw
        /\ Len(out.parsed.records) = 1
        /\ out.parsed.records[1].status \in {"Offline", "Operational"}
        /\ out.parsed.records[1].status = "Offline" <=>
               (/\ job.feature.properties.offline.t = "string"
                /\ job.feature.properties.offline.text = "true")

\* The feature whose offline attribute is the boolean true came out Operational.
C23_Witness ==
    /\ job.op = "feature"
    /\ out.stage = 1
    /\ job.feature.properties.offline = AttrBool(TRUE)
    /\ out.parsed.records[1].status = "Operational"

SeverityLevels == {"low", "medium", "high"}
TrendLevels == {"improving", "stable", "escalating"}

\* C24: for every outcome of the random draws the severity of a record is
\* low, medium or high, its trend improving, stable or escalating, and its
\* confidence an integer in 95..99 on the authoritative path and 80..98 on
\* the relay path; the static fallback records carry low, stable and 99.
C24_DrawnFieldsInRange ==
    /\ (job.op = "draws" /\ out.stage = 1) =>
           /\ out.arcgis.severity \in SeverityLevels
           /\ out.arcgis.trend \in TrendLevels
           /\ out.arcgis.confidence \in 95..99
           /\ out.xml.severity \in SeverityLevels
           /\ out.xml.trend \in TrendLevels
           /\ out.xml.confidence \in 80..98
    /\ \A n \in 1..Len(FALLBACK_CAMERAS) :
           /\ FALLBACK_CAMERAS[n].severity \in SeverityLevels
           /\ FALLBACK_CAMERAS[n].trend \in TrendLevels
           /\ FALLBACK_CAMERAS[n].confidence = 99
    /\ (job.op = "node" /\ out.stage = 1) =>
           \A n \in 1..Len(out.severity) : out.severity[n] \in SeverityLevels

\* The largest draws: the last entry of each list and the top confidences.
C24_Witness ==
    /\ job = DrawsJob(RandomSteps - 1, RandomSteps - 1, RandomSteps - 1)
    /\ out.stage = 1
    /\ out.arcgis = [severity |-> "high", trend |-> "escalating", confidence |-> 99]
    /\ out.xml = [severity |-> "high", trend |-> "escalating", confidence |-> 98]

\* C25: once the work of the activate event has completed, every cache whose
\* name differs from CACHE_NAME is gone and the current cache, if it existed,
\* is still there with what it held, whatever caches existed before.
C25_ActivationKeepsOnlyCurrentCache ==
    activation.pc = "done" =>
        /\ \A c \in CacheNameSet : c # CACHE_NAME => c \notin cacheKeys
        /\ CACHE_NAME \in activation.before =>
               /\ CACHE_NAME \in cacheKeys
               /\ entries[CACHE_NAME][ReqShell] = Response(TRUE, "install")

\* Activation has completed on three caches, and only the current one is left.
C25_Witness ==
    /\ activation.pc = "done"
    /\ activation.before = CacheNameSet
    /\ cacheKeys = {CACHE_NAME}
    /\ fetchEvent.pc = "idle"

\* Where a fetch event stands agrees with the strategy of its request: a
\* request to a live feed has gone to the network before anything else and
\* is answered from the cache only after that fetch has failed; any other
\* request answered from the cache has caused no network request, and one
\* not found in the cache is answered from the network.
AnsweredByStrategy ==
    fetchEvent.pc # "idle" =>
        IF IsLive(fetchEvent.request)
        THEN /\ fetchEvent.networkAsked
             /\ fetchEvent.pc = "fallbackMatch" => fetchEvent.networkFailed
             /\ fetchEvent.answer = "cache" => fetchEvent.networkFailed
             /\ fetchEvent.answer = "network" => ~fetchEvent.networkFailed
        ELSE /\ fetchEvent.answer = "cache" => (fetchEvent.matched /\ ~fetchEvent.networkAsked)
             /\ fetchEvent.answer \in {"network", "error"} =>
                    (~fetchEvent.matched /\ fetchEvent.networkAsked)
             /\ fetchEvent.pc = "done" => fetchEvent.answer # "none"

\* On the cache-first path only OK responses are stored.
OnlyOkStoredCacheFirst ==
    /\ \A p \in puts : p.strategy = "cacheFirst" => p.response.ok
    /\ \A r \in WorkerRequests :
           (~IsLive(r) /\ entries[CACHE_NAME][r] # NoResponse) => entries[CACHE_NAME][r].ok

\* A cache-first lookup that finds an entry answers with that entry; one that
\* finds none goes to the network.
LookupDecides ==
    (fetchEvent.pc = "match" /\ fetchEvent'.pc # "match") =>
        IF CacheMatch(fetchEvent.request) # NoResponse
        THEN /\ fetchEvent'.pc = "done"
             /\ fetchEvent'.answer = "cache"
             /\ fetchEvent'.response = CacheMatch(fetchEvent.request)
        ELSE fetchEvent'.pc = "network"

\* C26: a request whose origin contains trafficnz.info or
\* router.project-osrm.org goes to the network first and is answered from
\* the cache only when that fetch has failed; every other request is
\* answered from the cache whenever an entry matches, without a network
\* request, and from the network otherwise, and on that path a network
\* response is stored only if it is OK.
C26_FetchStrategies ==
    /\ [](AnsweredByStrategy /\ OnlyOkStoredCacheFirst)
    /\ [][LookupDecides]_vars

\* The camera feed was answered from the cache after its network fetch failed.
C26_Witness ==
    /\ fetchEvent.pc = "done"
    /\ fetchEvent.request = ReqCameras
    /\ fetchEvent.networkFailed
    /\ fetchEvent.answer = "cache"
    /\ fetchEvent.response = Response(TRUE, "network")

====
